---- MODULE Spec2Model ----
(***************************************************************************)
(* Call-centre discrete-event simulation (content/basic_model.py, with the *)
(* Experiment of content/model_utility.py).  Simulated time is an integer; *)
(* the SimPy environment is modelled by its event queue of                 *)
(* (time, priority, eid) entries, the Resource by its users list and its   *)
(* put queue, and the generators service / arrivals_generator by the       *)
(* position at which they are suspended.                                   *)
(***************************************************************************)
EXTENDS Integers, Sequences, FiniteSets, TLC

VARIABLES
    ctl,           \* the calling script: "new", "idle", "run", "stopped", or the exception raised
    experiment,    \* attributes of the Experiment object (parameters, seeds, samplers)
    results,       \* experiment.results
    operators,     \* experiment.operators (None, or the simpy.Resource)
    env,           \* the simpy.Environment of the current single_run
    procs,         \* the service generators of the current run, indexed by caller id
    caller_count,  \* itertools.count of arrivals_generator: id of the next caller
    frame,         \* arguments of the single_run in progress
    mr,            \* frame of multiple_replications (results list, returned DataFrame)
    history,       \* one record per single_run that returned, in call order
    drawn,         \* values the generators have produced: (rns, stream, n) -> value
    log            \* event log of the current run (requests, grants, answers, ...)

vars == <<ctl, experiment, results, operators, env, procs, caller_count,
          frame, mr, history, drawn, log>>

----------------------------------------------------------------------------
(* Bounds of the model *)
MaxOperators == 2     \* n_operators ranges over 1..MaxOperators
MaxPeriod    == 3     \* rc_period ranges over 0..MaxPeriod
MaxIAT       == 2     \* sampled inter-arrival times range over 0..MaxIAT
MaxCall      == 2     \* sampled call durations range over call_low..MaxCall
MaxCallers   == 3     \* callers spawned in one run
ExtraStreams == 1     \* n_streams ranges over 0..(number of distributions + ExtraStreams)
MaxRep       == 1     \* rep / random_number_set range over 0..MaxRep
MaxRuns      == 3     \* single_run calls on one Experiment (replication scenario)
RepPeriod    == 3     \* rc_period of the replication scenario
StreamLen    == 4     \* values of each stream fixed beforehand in the replication scenario
LivePeriod   == 2     \* rc_period of the runs of SpecLive

(* Defaults of basic_model *)
N_STREAMS       == 2
DEFAULT_RND_SET == 0

None == [none |-> TRUE]

RECURSIVE SumSeq(_)
SumSeq(s) == IF s = <<>> THEN 0 ELSE Head(s) + SumSeq(Tail(s))

----------------------------------------------------------------------------
(* Experiment: parameters, random streams, results *)

\* The distributions an Experiment instantiates: arrival_dist and call_dist in
\* basic_model; arrival_dist, call_dist, callback_dist and nurse_dist in
\* model_utility.  dists[i] is the sampler built from seeds[i-1] of the source.
Distributions(module) ==
    IF module = "basic_model"
    THEN <<"arrival_dist", "call_dist">>
    ELSE <<"arrival_dist", "call_dist", "callback_dist", "nurse_dist">>

\* np.random.SeedSequence(random_number_set).spawn(n): n children of a fresh
\* parent, child i identified by (entropy, spawn key i).
spawn(random_number_set, n) == [i \in 1..n |-> <<random_number_set, i - 1>>]

\* Experiment.init_sampling with the spawned seeds never indexed: a sampler is
\* seeded from the stream number alone.
init_sampling_no_index(x) ==
    [x EXCEPT !.seeds = spawn(x.random_number_set, x.n_streams),
              !.dists = [i \in DOMAIN Distributions(x.module) |->
                            [seed |-> <<x.random_number_set, i - 1>>, n |-> 0]],
              !.raised = "none"]

\* Experiment.init_sampling: spawn n_streams seeds, then build each
\* distribution from seeds[i]; indexing past the list raises IndexError.
init_sampling(x) ==
    LET seeds == spawn(x.random_number_set, x.n_streams)
        need  == DOMAIN Distributions(x.module)
    IN  IF \E i \in need : i \notin DOMAIN seeds
        THEN [x EXCEPT !.seeds = seeds, !.raised = "IndexError"]
        ELSE [x EXCEPT !.seeds = seeds,
                       !.dists = [i \in need |-> [seed |-> seeds[i], n |-> 0]],
                       !.raised = "none"]

\* Experiment.set_random_no_set without the call of init_sampling.
set_random_no_set_only(x, random_number_set) ==
    [x EXCEPT !.random_number_set = random_number_set]

\* Experiment.set_random_no_set
set_random_no_set(x, random_number_set) ==
    init_sampling([x EXCEPT !.random_number_set = random_number_set])

\* Experiment.init_results_variables with the previous results kept.
init_results_variables_keep(r) ==
    IF r = None THEN [waiting_times |-> <<>>, total_call_duration |-> 0] ELSE r

\* Experiment.init_results_variables
init_results_variables(r) ==
    [waiting_times |-> <<>>, total_call_duration |-> 0]

\* Only a positive waiting time is appended.
record_wait_positive(r, waiting_time) ==
    IF waiting_time > 0 THEN [r EXCEPT !.waiting_times = Append(@, waiting_time)] ELSE r

\* results["waiting_times"] = [waiting_time]: the list replaced, not extended.
record_wait_replace(r, waiting_time) ==
    [r EXCEPT !.waiting_times = <<waiting_time>>]

\* results["waiting_times"].append(waiting_time) done twice.
record_wait_twice(r, waiting_time) ==
    [r EXCEPT !.waiting_times = Append(Append(@, waiting_time), waiting_time)]

\* results["waiting_times"].append(waiting_time)
record_wait(r, waiting_time) ==
    [r EXCEPT !.waiting_times = Append(@, waiting_time)]

\* results["total_call_duration"] += call_duration done twice.
record_call_twice(r, call_duration) ==
    [r EXCEPT !.total_call_duration = @ + call_duration + call_duration]

\* results["total_call_duration"] += call_duration
record_call(r, call_duration) ==
    [r EXCEPT !.total_call_duration = @ + call_duration]

EmptyLog == [requests |-> <<>>, grants |-> <<>>, answers |-> <<>>,
             ends |-> <<>>, spawns |-> <<>>, steps |-> <<>>, releases |-> <<>>]
NoEnv   == [now |-> 0, queue |-> <<>>, eid |-> 0]
NoFrame == [rep |-> -1, rc_period |-> -1, rns_before |-> -1, waits_before |-> -1]
NoDF    == [index |-> <<>>, rows |-> <<>>, built |-> FALSE]
NoMR    == [active |-> FALSE, n_reps |-> -1, rc_period |-> -1, results |-> <<>>,
            df |-> NoDF, first |-> 0, ran |-> 0]

\* Experiment.__init__(random_number_set, n_operators, ..., n_streams)
Construct(module, rns, n_streams, n_operators, call) ==
    LET x == init_sampling([module |-> module,
                            random_number_set |-> rns,
                            n_streams |-> n_streams,
                            n_operators |-> n_operators,
                            call_low |-> call[1],
                            call_mode |-> call[2],
                            call_high |-> call[3],
                            seeds |-> <<>>,
                            dists |-> <<>>,
                            raised |-> "none"])
    IN  /\ ctl = "new"
        /\ experiment' = x
        /\ results' = init_results_variables(results)
        /\ ctl' = IF x.raised = "none" THEN "idle" ELSE x.raised
        /\ UNCHANGED <<operators, env, procs, caller_count, frame, mr,
                       history, drawn, log>>

Init ==
    /\ ctl = "new"
    /\ experiment = None
    /\ results = None
    /\ operators = None
    /\ env = NoEnv
    /\ procs = <<>>
    /\ caller_count = 1
    /\ frame = NoFrame
    /\ mr = NoMR
    /\ history = <<>>
    /\ drawn = <<>>
    /\ log = EmptyLog

----------------------------------------------------------------------------
(* Sampling.  A numpy Generator is deterministic in its seed: the n-th value *)
(* of the stream (rns, i) is chosen when it is first produced and is the    *)
(* same whenever a generator with that seed produces its n-th value again.  *)

Key(d) == <<d.seed[1], d.seed[2], d.n + 1>>

\* Generator.triangular(left, mode, right) raises ValueError when left > mode,
\* mode > right or left == right.
triangular_valid(x) ==
    /\ x.call_low <= x.call_mode
    /\ x.call_mode <= x.call_high
    /\ x.call_low # x.call_high

\* Values dists[i].sample() can return: Exponential is non-negative (cut at
\* MaxIAT), Triangular lies in call_low..call_high.
Support(x, i) == IF i = 1 THEN 0..MaxIAT ELSE x.call_low..x.call_high

Samples(x, i) ==
    IF Key(x.dists[i]) \in DOMAIN drawn
    THEN {drawn[Key(x.dists[i])]}
    ELSE Support(x, i)

\* dists[i].sample() returning v: the generator advances by one value.
sample(x, i) == [x EXCEPT !.dists[i].n = @ + 1]

Drawn(x, i, v) ==
    IF Key(x.dists[i]) \in DOMAIN drawn
    THEN drawn
    ELSE drawn @@ (Key(x.dists[i]) :> v)

----------------------------------------------------------------------------
(* simpy.Environment: the event queue *)

\* Initialize events (env.process) and the until event of env.run are
\* scheduled URGENT, every other event NORMAL.
Priority(kind) == IF kind \in {"Initialize", "Until"} THEN 0 ELSE 1

\* Order of the heap with the newest of the events of one time and priority
\* first.
Before_newest(a, b) ==
    \/ a.t < b.t
    \/ a.t = b.t /\ a.prio < b.prio
    \/ a.t = b.t /\ a.prio = b.prio /\ a.eid > b.eid

\* Order of the heap: time, then priority, then eid.
Before(a, b) ==
    \/ a.t < b.t
    \/ a.t = b.t /\ a.prio < b.prio
    \/ a.t = b.t /\ a.prio = b.prio /\ a.eid < b.eid

\* heappush: the queue is kept as the sequence in which heappop returns it.
heappush(q, ev) ==
    LET k == Cardinality({i \in DOMAIN q : ~Before(ev, q[i])})
    IN  SubSeq(q, 1, k) \o <<ev>> \o SubSeq(q, k + 1, Len(q))

\* Environment.schedule: push (now + delay, priority, next eid, event)
schedule(e, kind, who, delay) ==
    [e EXCEPT !.queue = heappush(@, [t |-> e.now + delay, prio |-> Priority(kind),
                                     eid |-> e.eid, kind |-> kind, who |-> who]),
              !.eid = @ + 1]

\* The event Environment.step pops next.
NextEvent == Head(env.queue)

\* Environment.step: pop the event and move the clock to its time.
pop(e) == [env EXCEPT !.now = e.t, !.queue = SelectSeq(@, LAMBDA f : f # e)]

Running(kind) == ctl = "run" /\ env.queue # <<>> /\ NextEvent.kind = kind

stepped(l, e) == [l EXCEPT !.steps = Append(@, <<e.t, e.prio, e.eid, e.kind>>)]

----------------------------------------------------------------------------
(* simpy.Resource: rw is the record [env, operators, log] a call works on *)

Remove(s, c) == SelectSeq(s, LAMBDA u : u # c)

\* A grant that never triggers the Request event: the user is recorded but
\* the waiting process is not scheduled to resume.
grant_silent(rw, c) ==
    [rw EXCEPT !.operators.users = Append(@, c),
               !.log.grants = Append(@, <<c, rw.env.now>>)]

\* Request.succeed(): the caller becomes a user and its Request event is
\* scheduled at the current time.
grant(rw, c) ==
    [rw EXCEPT !.operators.users = Append(@, c),
               !.env = schedule(rw.env, "Request", c, 0),
               !.log.grants = Append(@, <<c, rw.env.now>>)]

\* Resource._do_put with the capacity test off by one (<= for <).
do_put_spare(rw, c) ==
    IF Len(rw.operators.users) <= rw.operators.capacity THEN grant(rw, c) ELSE rw

\* Resource._do_put without the capacity test.
do_put_unbounded(rw, c) == grant(rw, c)

\* Resource._do_put: the request succeeds when a unit is free.
do_put(rw, c) ==
    IF Len(rw.operators.users) < rw.operators.capacity THEN grant(rw, c) ELSE rw

\* BaseResource._trigger_put serving the most recent request first.
trigger_put_newest(rw) ==
    IF rw.operators.put_queue = <<>> THEN rw
    ELSE LET q == rw.operators.put_queue
             c == q[Len(q)]
             after == do_put(rw, c)
         IN  IF after.operators.users # rw.operators.users
             THEN [after EXCEPT !.operators.put_queue = SubSeq(q, 1, Len(q) - 1)]
             ELSE after

\* BaseResource._trigger_put: _do_put returns None, so the loop stops after
\* the request at the head of put_queue, which is popped when it succeeded.
trigger_put(rw) ==
    IF rw.operators.put_queue = <<>> THEN rw
    ELSE LET c == Head(rw.operators.put_queue)
             after == do_put(rw, c)
         IN  IF after.operators.users # rw.operators.users
             THEN [after EXCEPT !.operators.put_queue = Tail(@)]
             ELSE after

\* Resource.request() that joins put_queue without _trigger_put.
request_untriggered(rw, c) ==
    [rw EXCEPT !.operators.put_queue = Append(@, c),
               !.log.requests = Append(@, <<c, rw.env.now, Len(rw.operators.users),
                                            Len(rw.operators.put_queue)>>)]

\* Resource.request(): the Request joins put_queue, then _trigger_put(None).
\* The log keeps the caller, the time, and the numbers of users and of queued
\* requests the caller found.
request(rw, c) ==
    trigger_put([rw EXCEPT !.operators.put_queue = Append(@, c),
                           !.log.requests = Append(@, <<c, rw.env.now,
                                                        Len(rw.operators.users),
                                                        Len(rw.operators.put_queue)>>)])

\* The caller at the head of put_queue, 0 when nobody is queued.
head(q) == IF q = <<>> THEN 0 ELSE Head(q)

\* Resource.release(req) with the Release event delayed by one time unit.
release_late(rw, c) ==
    [rw EXCEPT !.operators.users = Remove(@, c),
               !.env = schedule(rw.env, "Release", c, 1),
               !.log.releases = Append(@, <<c, rw.env.now, head(rw.operators.put_queue)>>)]

\* Leaving the with block: Resource.release(req) removes the user at once and
\* schedules the Release event, whose callback is _trigger_put.
release(rw, c) ==
    [rw EXCEPT !.operators.users = Remove(@, c),
               !.env = schedule(rw.env, "Release", c, 0),
               !.log.releases = Append(@, <<c, rw.env.now, head(rw.operators.put_queue)>>)]

----------------------------------------------------------------------------
(* single_run and multiple_replications *)

Mean(s) == <<SumSeq(s), Len(s)>>          \* np.mean as sum / count; <<0, 0>> is nan

\* run_results of single_run: the mean waiting time and the utilisation
\* total_call_duration / (rc_period * n_operators) * 100 as a fraction.
run_results(r, x, rc_period) ==
    [mean_waiting_time |-> Mean(r.waiting_times),
     operator_util |-> <<r.total_call_duration * 100, rc_period * x.n_operators>>]

\* env.run() entered without until: no until event is scheduled.
run_forever(e, until) == e

\* env.run(until=rc_period) entered with until > env.now: the until event is
\* scheduled URGENT at time until.
run(e, until) == schedule(e, "Until", 0, until - e.now)

\* The rep of the next single_run of multiple_replications, counted from 1.
next_rep_from_one(m) == Len(m.results) + 1

\* The rep of the next single_run of multiple_replications: range(n_reps).
next_rep(m) == Len(m.results)

\* env.now - start_wait with the subtraction left out.
waiting_time_now(now, start_wait) == now

\* waiting_time = env.now - start_wait
waiting_time(now, start_wait) == now - start_wait

\* single_run up to the start of the event loop (lines 356-375): reset the
\* results, re-seed the samplers with rep, create the Environment and the
\* Resource (simpy raises ValueError unless capacity > 0), start
\* arrivals_generator, and enter env.run(until=rc_period), which raises
\* ValueError unless rc_period > env.now = 0 and otherwise schedules the until
\* event URGENT at rc_period.
single_run(rep, rc_period, max_runs) ==
    LET e0 == schedule(NoEnv, "Initialize", 0, 0)
    IN  /\ ctl = "idle"
        /\ experiment.module = "basic_model"
        /\ Len(history) < max_runs
        /\ IF mr.active
           THEN /\ Len(mr.results) < mr.n_reps
                /\ rep = next_rep(mr)
                /\ rc_period = mr.rc_period
           ELSE TRUE
        /\ results' = init_results_variables(results)
        /\ experiment' = set_random_no_set(experiment, rep)
        /\ procs' = <<>>
        /\ caller_count' = 1
        /\ log' = EmptyLog
        /\ frame' = [rep |-> rep, rc_period |-> rc_period,
                     rns_before |-> experiment.random_number_set,
                     waits_before |-> Len(results.waiting_times)]
        /\ IF experiment.n_operators <= 0
           THEN /\ operators' = operators
                /\ env' = NoEnv
                /\ ctl' = "ValueError"
           ELSE /\ operators' = [capacity |-> experiment.n_operators,
                                 users |-> <<>>, put_queue |-> <<>>]
                /\ IF rc_period <= e0.now
                   THEN /\ env' = e0
                        /\ ctl' = "ValueError"
                   ELSE /\ env' = run(e0, rc_period)
                        /\ ctl' = "run"
        /\ UNCHANGED <<mr, history, drawn>>

\* arrivals_generator started: sample the first inter-arrival time and
\* suspend on env.timeout (lines 319-324).
step_Initialize_arrivals(v) ==
    LET e == NextEvent
    IN  /\ Running("Initialize") /\ e.who = 0
        /\ v \in Samples(experiment, 1)
        /\ experiment' = sample(experiment, 1)
        /\ drawn' = Drawn(experiment, 1, v)
        /\ env' = schedule(pop(e), "Timeout", 0, v)
        /\ log' = stepped(log, e)
        /\ UNCHANGED <<ctl, results, operators, procs, caller_count, frame,
                       mr, history>>

\* arrivals_generator resumed by its timeout: start service(caller_count),
\* take the next id, sample and suspend again (lines 324-329, 319-324).
step_Timeout_arrivals(v) ==
    LET e  == NextEvent
        e1 == schedule(pop(e), "Initialize", caller_count, 0)
    IN  /\ Running("Timeout") /\ e.who = 0
        /\ caller_count <= MaxCallers
        /\ v \in Samples(experiment, 1)
        /\ experiment' = sample(experiment, 1)
        /\ drawn' = Drawn(experiment, 1, v)
        /\ procs' = Append(procs, [pc |-> "start", start_wait |-> -1,
                                   call_duration |-> -1])
        /\ caller_count' = caller_count + 1
        /\ env' = schedule(e1, "Timeout", 0, v)
        /\ log' = [stepped(log, e) EXCEPT !.spawns = Append(@, <<caller_count, e.t>>)]
        /\ UNCHANGED <<ctl, results, operators, frame, mr, history>>

\* service started: note start_wait, request an operator and suspend on the
\* request (lines 274-279).
step_Initialize_service ==
    LET e  == NextEvent
        c  == e.who
        rw == request([env |-> pop(e), operators |-> operators,
                       log |-> stepped(log, e)], c)
    IN  /\ Running("Initialize") /\ c # 0
        /\ procs' = [procs EXCEPT ![c].pc = "wait", ![c].start_wait = e.t]
        /\ env' = rw.env
        /\ operators' = rw.operators
        /\ log' = rw.log
        /\ UNCHANGED <<ctl, experiment, results, caller_count, frame, mr,
                       history, drawn>>

\* service resumed by its granted request: record the waiting time, sample
\* the call duration and suspend on env.timeout (lines 281-293).  With
\* parameters numpy rejects, call_dist.sample() raises ValueError after the
\* waiting time was appended; the exception leaves env.run and single_run.
step_Request(v) ==
    LET e == NextEvent
        c == e.who
        wt == waiting_time(e.t, procs[c].start_wait)
    IN  /\ Running("Request")
        /\ results' = record_wait(results, wt)
        /\ IF triangular_valid(experiment)
           THEN /\ v \in Samples(experiment, 2)
                /\ experiment' = sample(experiment, 2)
                /\ drawn' = Drawn(experiment, 2, v)
                /\ procs' = [procs EXCEPT ![c].pc = "call", ![c].call_duration = v]
                /\ env' = schedule(pop(e), "Timeout", c, v)
                /\ ctl' = ctl
           ELSE /\ v = 0
                /\ env' = pop(e)
                /\ ctl' = "ValueError"
                /\ UNCHANGED <<experiment, drawn, procs>>
        /\ log' = [stepped(log, e) EXCEPT !.answers = Append(@, <<c, e.t>>)]
        /\ UNCHANGED <<operators, caller_count, frame, mr, history>>

\* service resumed by its timeout: add the call duration to the total, leave
\* the with block (release) and end; the ended Process is itself scheduled
\* as an event (lines 295-302).
step_Timeout_service ==
    LET e  == NextEvent
        c  == e.who
        rw == release([env |-> pop(e), operators |-> operators,
                       log |-> stepped(log, e)], c)
    IN  /\ Running("Timeout") /\ c # 0
        /\ results' = record_call(results, procs[c].call_duration)
        /\ procs' = [procs EXCEPT ![c].pc = "done"]
        /\ env' = schedule(rw.env, "Process", c, 0)
        /\ operators' = rw.operators
        /\ log' = [rw.log EXCEPT !.ends = Append(@, <<c, e.t>>)]
        /\ UNCHANGED <<ctl, experiment, caller_count, frame, mr, history, drawn>>

\* The Release event is processed without its callback.
step_Release_lost ==
    LET e == NextEvent
    IN  /\ Running("Release")
        /\ env' = pop(e)
        /\ log' = stepped(log, e)
        /\ UNCHANGED <<ctl, experiment, results, operators, procs, caller_count,
                       frame, mr, history, drawn>>

\* The Release event is processed: its callback _trigger_put grants the freed
\* unit to the head of put_queue.
step_Release ==
    LET e  == NextEvent
        rw == trigger_put([env |-> pop(e), operators |-> operators,
                           log |-> stepped(log, e)])
    IN  /\ Running("Release")
        /\ env' = rw.env
        /\ operators' = rw.operators
        /\ log' = rw.log
        /\ UNCHANGED <<ctl, experiment, results, procs, caller_count, frame,
                       mr, history, drawn>>

\* The event of an ended service process is processed: it has no callbacks.
step_Process ==
    LET e == NextEvent
    IN  /\ Running("Process")
        /\ env' = pop(e)
        /\ log' = stepped(log, e)
        /\ UNCHANGED <<ctl, experiment, results, operators, procs, caller_count,
                       frame, mr, history, drawn>>

\* The until event is processed: StopSimulation ends env.run (line 375).
step_Until ==
    LET e == NextEvent
    IN  /\ Running("Until")
        /\ env' = pop(e)
        /\ log' = stepped(log, e)
        /\ ctl' = "stopped"
        /\ UNCHANGED <<experiment, results, operators, procs, caller_count,
                       frame, mr, history, drawn>>

\* single_run after env.run: compute and return run_results (lines 377-389).
\* The Environment and the generators are locals and die with the call.
single_run_return ==
    LET row == run_results(results, experiment, frame.rc_period)
    IN  /\ ctl = "stopped"
        /\ history' = Append(history,
                             [rep |-> frame.rep, rc_period |-> frame.rc_period,
                              rns_before |-> frame.rns_before,
                              waits_before |-> frame.waits_before,
                              waiting_times |-> results.waiting_times,
                              total_call_duration |-> results.total_call_duration,
                              row |-> row])
        /\ mr' = IF mr.active THEN [mr EXCEPT !.results = Append(@, row)] ELSE mr
        /\ ctl' = "idle"
        /\ env' = NoEnv
        /\ procs' = <<>>
        /\ caller_count' = 1
        /\ frame' = NoFrame
        /\ log' = EmptyLog
        /\ UNCHANGED <<experiment, results, operators, drawn>>

\* multiple_replications entered: the list comprehension starts at rep 0.
multiple_replications(rc_period, n_reps) ==
    /\ ctl = "idle"
    /\ experiment.module = "basic_model"
    /\ ~mr.active /\ mr.df = NoDF
    /\ mr' = [active |-> TRUE, n_reps |-> n_reps, rc_period |-> rc_period,
              results |-> <<>>, df |-> NoDF, first |-> Len(history), ran |-> 0]
    /\ UNCHANGED <<ctl, experiment, results, operators, env, procs,
                   caller_count, frame, history, drawn, log>>

\* pd.DataFrame(results) with index np.arange(1, len + 1) named "rep".
DataFrame(rows) ==
    [index |-> [i \in 1..Len(rows) |-> i], rows |-> rows, built |-> TRUE]

\* multiple_replications after the last single_run (lines 419-423).
multiple_replications_return ==
    /\ ctl = "idle"
    /\ mr.active
    /\ Len(mr.results) = mr.n_reps
    /\ mr' = [mr EXCEPT !.active = FALSE, !.df = DataFrame(mr.results),
                        !.ran = Len(history) - mr.first]
    /\ UNCHANGED <<ctl, experiment, results, operators, env, procs,
                   caller_count, frame, history, drawn, log>>

step ==
    \/ \E v \in 0..MaxIAT : step_Initialize_arrivals(v)
    \/ \E v \in 0..MaxIAT : step_Timeout_arrivals(v)
    \/ step_Initialize_service
    \/ \E v \in 0..MaxCall : step_Request(v)
    \/ step_Timeout_service
    \/ step_Release
    \/ step_Process
    \/ step_Until

\* One run of the model (rep = 0, the default) on an Experiment built with
\* the default random number set and stream count; every sampled value is
\* chosen freely in its support.
Next ==
    \/ \E n_operators \in 1..MaxOperators :
          Construct("basic_model", DEFAULT_RND_SET, N_STREAMS, n_operators,
                    <<0, 1, MaxCall>>)
    \/ \E rc_period \in 0..MaxPeriod : single_run(0, rc_period, 1)
    \/ step
    \/ single_run_return

Spec == Init /\ [][Next]_vars

----------------------------------------------------------------------------
(* Reading the event log of the current run *)

InRun == ctl \in {"run", "stopped"}

Logged(l, c) == \E i \in DOMAIN l : l[i][1] = c
Idx(l, c)    == CHOOSE i \in DOMAIN l : l[i][1] = c
TimeOf(l, c) == l[Idx(l, c)][2]
Count(l, c)  == Cardinality({i \in DOMAIN l : l[i][1] = c})

\* Callers inside the with block after the grant.
Holding == {c \in DOMAIN procs : Logged(log.grants, c) /\ ~Logged(log.ends, c)}

\* Sum of the call durations of the callers whose service completed.
DoneDurations ==
    SumSeq([i \in DOMAIN log.ends |-> procs[log.ends[i][1]].call_duration])

----------------------------------------------------------------------------
(* Claims about one run (Spec; C15, C16, C19 and C20 on the runs of SpecLive) *)

\* C1: at every instant of a run the number of callers holding an operator
\* unit (granted, service not yet ended) is at most n_operators, and so is the
\* length of the Resource's users list.
C1_HeldWithinCapacity ==
    InRun => /\ Cardinality(Holding) <= experiment.n_operators
             /\ Len(operators.users) <= experiment.n_operators

\* Both operators held while a third caller is queued.
C1_Witness ==
    /\ ctl = "run"
    /\ experiment.n_operators = 2
    /\ Cardinality(Holding) = 2
    /\ operators.put_queue # <<>>

\* C2: operators are granted in request order: when b requested after a and b
\* has been granted, a was granted before b; the callers also resume from
\* their grants in request order.
C2_GrantedInRequestOrder ==
    InRun =>
      /\ \A i, j \in DOMAIN log.requests :
            (i < j /\ Logged(log.grants, log.requests[j][1])) =>
               /\ Logged(log.grants, log.requests[i][1])
               /\ Idx(log.grants, log.requests[i][1])
                     < Idx(log.grants, log.requests[j][1])
      /\ \A i \in DOMAIN log.answers : log.answers[i][1] = log.requests[i][1]

\* A caller was granted after having queued together with a later requester
\* who is still waiting behind it.
C2_Witness ==
    /\ ctl = "run"
    /\ \E i \in DOMAIN log.grants :
          /\ log.grants[i][2] > log.requests[i][2]
          /\ i + 1 \in DOMAIN log.requests
          /\ log.requests[i + 1][2] < log.grants[i][2]
          /\ ~Logged(log.grants, log.requests[i + 1][1])

\* C3: a caller that was granted an operator appends exactly one waiting time,
\* at the instant of the grant (until then the grant is being delivered at
\* the current instant), equal to grant time minus the time its service was
\* entered; a caller not granted appends nothing.
C3_OneWaitAtGrant ==
    InRun =>
      /\ Len(results.waiting_times) = Len(log.answers)
      /\ \A c \in DOMAIN procs :
            IF Logged(log.grants, c)
            THEN \/ /\ Count(log.answers, c) = 1
                    /\ TimeOf(log.answers, c) = TimeOf(log.grants, c)
                    /\ results.waiting_times[Idx(log.answers, c)]
                          = TimeOf(log.grants, c) - procs[c].start_wait
                 \/ /\ Count(log.answers, c) = 0
                    /\ ctl = "run"
                    /\ TimeOf(log.grants, c) = env.now
                    /\ \E i \in DOMAIN env.queue :
                          /\ env.queue[i].kind = "Request"
                          /\ env.queue[i].who = c
                          /\ env.queue[i].t = env.now
            ELSE Count(log.answers, c) = 0

\* The run stopped with a caller that waited a positive time before its grant
\* and a caller that was never granted.
C3_Witness ==
    /\ ctl = "stopped"
    /\ \E c \in DOMAIN procs :
          /\ Logged(log.answers, c)
          /\ results.waiting_times[Idx(log.answers, c)] > 0
          /\ procs[c].start_wait > 0
    /\ \E c \in DOMAIN procs : procs[c].pc = "wait" /\ ~Logged(log.grants, c)

\* C4: at the end of a run total_call_duration is at most
\* n_operators * rc_period, and the reported 02_operator_util lies in [0, 100].
C4_UtilWithinBounds ==
    /\ ctl = "stopped" =>
          /\ results.total_call_duration >= 0
          /\ results.total_call_duration <= experiment.n_operators * frame.rc_period
    /\ \A i \in DOMAIN history :
          LET u == history[i].row.operator_util
          IN  u[2] > 0 /\ 0 <= u[1] /\ u[1] <= 100 * u[2]

\* A run returned more busy time than one operator can deliver in rc_period.
C4_Witness ==
    \E i \in DOMAIN history :
       history[i].total_call_duration > history[i].rc_period

\* C5 (as claimed): every caller in flight at the horizon, queued or in
\* service, has contributed no waiting time and no busy time.
C5_InFlightExcluded ==
    ctl = "stopped" =>
      /\ \A c \in DOMAIN procs :
            procs[c].pc # "done" => Count(log.answers, c) = 0
      /\ results.total_call_duration = DoneDurations

\* C5 (amended): at the horizon a queued caller has contributed nothing; a
\* caller in service has contributed its waiting time, recorded at the grant,
\* and no busy time; the observations are those of the callers in service or
\* done, the busy time that of the callers done.
C5_InFlightAtHorizon ==
    ctl = "stopped" =>
      /\ \A c \in DOMAIN procs :
            /\ procs[c].pc \in {"wait", "call", "done"}
            /\ procs[c].pc = "wait" => Count(log.answers, c) = 0
            /\ procs[c].pc = "call" => Count(log.answers, c) = 1
      /\ Len(results.waiting_times)
            = Cardinality({c \in DOMAIN procs : procs[c].pc \in {"call", "done"}})
      /\ results.total_call_duration = DoneDurations

\* The run stopped with one caller in service and one caller queued.
C5_Witness ==
    /\ ctl = "stopped"
    /\ \E c \in DOMAIN procs : procs[c].pc = "call" /\ procs[c].call_duration > 0
    /\ \E c \in DOMAIN procs : procs[c].pc = "wait"

\* C6: the clock never passes rc_period, and every event processed, every
\* waiting time appended, every call duration added and every caller spawned
\* is at a time not exceeding rc_period.
C6_NothingPastHorizon ==
    InRun =>
      /\ env.now <= frame.rc_period
      /\ \A i \in DOMAIN log.steps   : log.steps[i][1] <= frame.rc_period
      /\ \A i \in DOMAIN log.answers : log.answers[i][2] <= frame.rc_period
      /\ \A i \in DOMAIN log.ends    : log.ends[i][2] <= frame.rc_period
      /\ \A i \in DOMAIN log.spawns  : log.spawns[i][2] <= frame.rc_period

\* The run stopped leaving the end of a call and the next arrival scheduled
\* beyond the horizon.
C6_Witness ==
    /\ ctl = "stopped"
    /\ env.now = frame.rc_period
    /\ \E i \in DOMAIN env.queue :
          /\ env.queue[i].kind = "Timeout" /\ env.queue[i].who # 0
          /\ env.queue[i].t > frame.rc_period
    /\ \E i \in DOMAIN env.queue :
          /\ env.queue[i].kind = "Timeout" /\ env.queue[i].who = 0
          /\ env.queue[i].t > frame.rc_period

\* C12 (as claimed): single_run with rc_period = 0 is not an error: the run
\* is entered and completes, and it returns no waiting time (the mean is
\* that of an empty sequence) and an operator utilisation of 0.
C12_ZeroHorizonCompletes ==
    /\ frame.rc_period = 0 => ctl \in {"run", "stopped"}
    /\ \A i \in DOMAIN history :
          history[i].rc_period = 0 =>
             /\ history[i].waiting_times = <<>>
             /\ history[i].row.mean_waiting_time = Mean(<<>>)
             /\ history[i].row.operator_util[1] = 0

\* Every value sampled so far in the run, inter-arrival time or call
\* duration, is d: the samplers behave as FixedDistribution(d).
AllSamplesAre(d) == drawn # <<>> /\ \A k \in DOMAIN drawn : drawn[k] = d

\* The Release event of caller c is still to be processed at this instant.
ReleasePending(c) ==
    \E i \in DOMAIN env.queue :
       /\ env.queue[i].kind = "Release"
       /\ env.queue[i].who = c
       /\ env.queue[i].t = env.now

\* C13: with one operator and every inter-arrival time and every call
\* duration equal to the same d > 0, every waiting time recorded is 0,
\* whatever the horizon: a caller that requested before the caller ahead of
\* it ended its call is granted at the instant of its request, at the latest
\* when the Release event due at that instant is processed.
C13_BackToBackNoWait ==
    (InRun /\ experiment.n_operators = 1
           /\ \E d \in 1..MaxCall : AllSamplesAre(d)) =>
       /\ \A i \in DOMAIN results.waiting_times : results.waiting_times[i] = 0
       /\ \A c \in DOMAIN procs :
             (c > 1 /\ Logged(log.requests, c) /\ Logged(log.ends, c - 1)) =>
                \/ /\ Logged(log.grants, c)
                   /\ TimeOf(log.grants, c) = TimeOf(log.requests, c)
                \/ ctl = "run" /\ ReleasePending(c - 1)

\* Such a run stopped with two callers answered, the second having arrived
\* at the instant the first one's call ended.
C13_Witness ==
    /\ ctl = "stopped"
    /\ experiment.n_operators = 1
    /\ \E d \in 1..MaxCall : AllSamplesAre(d)
    /\ Len(log.answers) >= 2
    /\ Logged(log.ends, 1)
    /\ TimeOf(log.ends, 1) = TimeOf(log.requests, 2)

\* Callers a and a + 1 were spawned at the same instant (the inter-arrival
\* time sampled between them was 0) into a pool of one operator that every
\* earlier caller has left by then.
SimultaneousPair(a) ==
    /\ experiment.n_operators = 1
    /\ Logged(log.spawns, a) /\ Logged(log.spawns, a + 1)
    /\ TimeOf(log.spawns, a) = TimeOf(log.spawns, a + 1)
    /\ \A c \in 1..(a - 1) :
          Logged(log.ends, c) /\ TimeOf(log.ends, c) <= TimeOf(log.spawns, a)

\* C14: of two callers spawned at the same instant into a free pool of one
\* operator with nobody queued, the one spawned first is granted first and
\* records a waiting time of 0; the waiting time of the second is the call
\* duration sampled for the first.
C14_SecondWaitsFirstCall ==
    InRun =>
      \A a \in DOMAIN procs :
         SimultaneousPair(a) =>
            /\ Logged(log.grants, a + 1) =>
                  /\ Logged(log.grants, a)
                  /\ Idx(log.grants, a) < Idx(log.grants, a + 1)
            /\ Logged(log.answers, a) =>
                  results.waiting_times[Idx(log.answers, a)] = 0
            /\ Logged(log.answers, a + 1) =>
                  /\ Logged(log.answers, a)
                  /\ results.waiting_times[Idx(log.answers, a + 1)]
                        = procs[a].call_duration

\* Two callers arrived together and the second was answered after waiting
\* the first one's positive call duration.
C14_Witness ==
    /\ InRun
    /\ \E a \in DOMAIN procs :
          /\ SimultaneousPair(a)
          /\ Logged(log.answers, a + 1)
          /\ procs[a].call_duration > 0
          /\ results.waiting_times[Idx(log.answers, a + 1)] = procs[a].call_duration

\* The steps of the run that resume arrivals_generator or a service process:
\* a process start (Initialize), a timer expiry (Timeout), a grant (Request).
Resumptions ==
    {i \in DOMAIN log.steps : log.steps[i][4] \in {"Initialize", "Timeout", "Request"}}

C16_ReleaseGrantsHeadAtOnce ==
    InRun =>
      /\ \A i \in DOMAIN log.releases :
            LET c == log.releases[i][1]
                t == log.releases[i][2]
                h == log.releases[i][3]
            IN  h # 0 =>
                  /\ \/ Logged(log.grants, h) /\ TimeOf(log.grants, h) = t
                     \/ ctl = "run" /\ env.now = t /\ ReleasePending(c)
                  /\ Logged(log.answers, h) =>
                        results.waiting_times[Idx(log.answers, h)]
                           = t - procs[h].start_wait
      /\ (ctl = "run" /\ operators.put_queue # <<>>
                      /\ Len(operators.users) < operators.capacity)
            => \E c \in DOMAIN procs : ReleasePending(c)

\* A caller that had queued for a positive time was answered at the instant
\* the caller ahead of it ended its call.
C16_Witness ==
    /\ InRun
    /\ \E i \in DOMAIN log.releases :
          LET h == log.releases[i][3]
          IN  /\ h # 0
              /\ Logged(log.answers, h)
              /\ TimeOf(log.answers, h) = log.releases[i][2]
              /\ results.waiting_times[Idx(log.answers, h)] > 0

\* Positions of the service processes: in its call (resumed from its request,
\* inside the with block), completed, or still waiting for its request
\* (started or not).
InCall    == {c \in DOMAIN procs : procs[c].pc = "call"}
Completed == {c \in DOMAIN procs : procs[c].pc = "done"}
Queued    == {c \in DOMAIN procs : procs[c].pc \in {"start", "wait"}}

InstantDone == \A i \in DOMAIN env.queue : env.queue[i].t > env.now

\* C20: once the events due at the current instant are processed, a caller
\* is queued only if all n_operators units are held; and a caller that
\* requested when fewer than n_operators units were held and nobody was
\* queued was granted at that instant and records a waiting time of 0.
C20_WorkConserving ==
    InRun =>
      /\ (InstantDone /\ operators.put_queue # <<>>) =>
            Len(operators.users) = experiment.n_operators
      /\ \A i \in DOMAIN log.requests :
            LET c == log.requests[i][1]
            IN  (log.requests[i][3] < experiment.n_operators /\ log.requests[i][4] = 0) =>
                   /\ Logged(log.grants, c)
                   /\ TimeOf(log.grants, c) = log.requests[i][2]
                   /\ Logged(log.answers, c) =>
                         results.waiting_times[Idx(log.answers, c)] = 0

\* Time is about to advance with a caller queued behind two calls, the second
\* of which was answered at once on the unit that was free when it arrived.
C20_Witness ==
    /\ ctl = "run"
    /\ InstantDone
    /\ operators.put_queue # <<>>
    /\ experiment.n_operators = 2
    /\ \E i \in DOMAIN log.requests :
          /\ log.requests[i][3] = 1
          /\ log.requests[i][4] = 0
          /\ Logged(log.answers, log.requests[i][1])

----------------------------------------------------------------------------
(* One run to a short horizon.  env.run steps the event queue until the     *)
(* until event is processed, so a step that can be taken is taken.           *)

\* One run to the horizon LivePeriod on a pool of one or of two operators.
NextLive ==
    \/ \E n_operators \in 1..2 :
          Construct("basic_model", DEFAULT_RND_SET, N_STREAMS, n_operators,
                    <<0, 1, MaxCall>>)
    \/ single_run(0, LivePeriod, 1)
    \/ step
    \/ single_run_return

SpecLive == Init /\ [][NextLive]_vars /\ WF_vars(step)

\* The run has spawned as many callers as the model follows.
Capped == caller_count > MaxCallers

PendingTimeout(c) ==
    \E i \in DOMAIN env.queue : env.queue[i].kind = "Timeout" /\ env.queue[i].who = c

\* When env.run has stopped, every process is accounted for: what is left in
\* the event queue are timer expiries due later than `due`; arrivals_generator
\* is suspended on such a timer, and so is every caller in its call; a caller
\* still queued finds every operator held by a caller in its call.
NothingLostBut(due) ==
    ctl = "stopped" =>
      /\ \A i \in DOMAIN env.queue :
            env.queue[i].kind = "Timeout" /\ env.queue[i].t > due
      /\ PendingTimeout(0)
      /\ \A c \in DOMAIN procs :
            /\ procs[c].pc \in {"wait", "call", "done"}
            /\ procs[c].pc = "call" => PendingTimeout(c)
            /\ procs[c].pc = "wait" =>
                  /\ \E i \in DOMAIN operators.put_queue : operators.put_queue[i] = c
                  /\ Len(operators.users) = operators.capacity
                  /\ \A i \in DOMAIN operators.users :
                        procs[operators.users[i]].pc = "call"

----------------------------------------------------------------------------
(* Replications.  The generators' outputs are fixed beforehand: Init picks   *)
(* one table of the first StreamLen values of every stream (rns, i).         *)

RepCall == <<1, 1, 2>>      \* call_low, call_mode, call_high of the scenario

StreamKeys == (0..MaxRep) \X (0..1) \X (1..StreamLen)

StreamTable(a, c) ==
    [k \in StreamKeys |->
        IF k[2] = 0
        THEN (a + k[1] + k[3] * (k[1] + 1)) % (MaxIAT + 1)
        ELSE RepCall[1] + ((c + k[1] + k[3]) % (RepCall[3] - RepCall[1] + 1))]

InitReps ==
    /\ ctl = "new"
    /\ experiment = None
    /\ results = None
    /\ operators = None
    /\ env = NoEnv
    /\ procs = <<>>
    /\ caller_count = 1
    /\ frame = NoFrame
    /\ mr = NoMR
    /\ history = <<>>
    /\ drawn \in {StreamTable(a, c) : a \in 0..MaxIAT, c \in 0..1}
    /\ log = EmptyLog

\* Any Experiment, then up to MaxRuns runs of it, called directly or through
\* multiple_replications.
NextReps ==
    \/ \E module \in {"basic_model", "model_utility"},
          rns \in {DEFAULT_RND_SET, MaxRep}, n_operators \in {1, MaxOperators} :
          \E n_streams \in 0..(Len(Distributions(module)) + ExtraStreams) :
             Construct(module, rns, n_streams, n_operators, RepCall)
    \/ \E rep \in 0..MaxRep : single_run(rep, RepPeriod, MaxRuns)
    \/ step
    \/ single_run_return
    \/ \E n_reps \in 0..MaxRuns : multiple_replications(RepPeriod, n_reps)
    \/ multiple_replications_return

SpecReps == InitReps /\ [][NextReps]_vars

----------------------------------------------------------------------------
(* Claims about replications and stream setup (SpecReps) *)

\* C7: two runs of single_run with the same rep and the same rc_period on the
\* same parameters record the same sequence of waiting times and the same
\* total_call_duration.
C7_SameRepSameObservations ==
    \A i, j \in DOMAIN history :
       (history[i].rep = history[j].rep /\ history[i].rc_period = history[j].rc_period)
          => /\ history[i].waiting_times = history[j].waiting_times
             /\ history[i].total_call_duration = history[j].total_call_duration

\* The same rep was run twice and at least two callers were answered.
C7_Witness ==
    \E i, j \in DOMAIN history :
       /\ i < j
       /\ history[i].rep = history[j].rep
       /\ Len(history[j].waiting_times) >= 2
       /\ history[j].total_call_duration > 0

\* C8: a run owns its samplers, results and resource pool: during a run with
\* rep r the samplers are those of the streams (r, i) and have produced only
\* this run's samples, the results hold only this run's observations and
\* calls, the pool holds only this run's callers; and the row a rep returns
\* is the same wherever the run stands among the runs made on the object.
C8_RunsIsolated ==
    /\ InRun =>
          /\ experiment.random_number_set = frame.rep
          /\ \A i \in DOMAIN experiment.dists :
                experiment.dists[i].seed = <<frame.rep, i - 1>>
          /\ experiment.dists[1].n
                = Len(log.spawns) + (IF log.steps = <<>> THEN 0 ELSE 1)
          /\ experiment.dists[2].n = Len(log.answers)
          /\ Len(results.waiting_times) = Len(log.answers)
          /\ results.total_call_duration = DoneDurations
          /\ operators.capacity = experiment.n_operators
          /\ {operators.users[i] : i \in DOMAIN operators.users} = Holding
          /\ \A i \in DOMAIN operators.put_queue :
                /\ operators.put_queue[i] \in DOMAIN procs
                /\ procs[operators.put_queue[i]].pc = "wait"
    /\ \A i, j \in DOMAIN history :
          (history[i].rep = history[j].rep /\ history[i].rc_period = history[j].rc_period)
             => history[i].row = history[j].row

\* A rep was run first on an Experiment constructed with another random
\* number set and again after a run of another rep that left observations
\* behind, the two reps giving different observations.
C8_Witness ==
    /\ Len(history) = 3
    /\ history[1].rep = history[3].rep
    /\ history[2].rep # history[1].rep
    /\ history[1].rns_before # history[1].rep
    /\ history[3].waits_before > 0
    /\ history[1].waiting_times # <<>>
    /\ history[2].waiting_times # history[1].waiting_times

\* C9 (as claimed): multiple_replications makes n_reps runs and returns
\* n_reps rows in run order labelled 1..n_reps, the row labelled i being the
\* result of the run made with rep = i.
C9_RowLabelIsRep ==
    mr.df.built =>
      /\ mr.ran = mr.n_reps
      /\ Len(mr.df.rows) = mr.n_reps
      /\ mr.df.index = [i \in 1..mr.n_reps |-> i]
      /\ \A i \in DOMAIN mr.df.rows :
            /\ history[mr.first + i].row = mr.df.rows[i]
            /\ history[mr.first + i].rep = mr.df.index[i]

\* C9 (amended): as above, but the row labelled i is the result of the run
\* made with rep = i - 1: the runs use rep 0..n_reps-1, the labels are
\* 1..n_reps.
C9_RowLabelIsRepPlusOne ==
    mr.df.built =>
      /\ mr.ran = mr.n_reps
      /\ Len(mr.df.rows) = mr.n_reps
      /\ mr.df.index = [i \in 1..mr.n_reps |-> i]
      /\ \A i \in DOMAIN mr.df.rows :
            /\ history[mr.first + i].row = mr.df.rows[i]
            /\ history[mr.first + i].rep = mr.df.index[i] - 1

\* multiple_replications returned at least two rows, not all alike.
C9_Witness ==
    /\ mr.df.built
    /\ mr.n_reps >= 2
    /\ mr.df.rows[1] # mr.df.rows[2]

C18_ResetOnceThenGrow ==
    [][/\ (ctl = "idle" /\ ctl' # "idle") =>
             /\ results' = [waiting_times |-> <<>>, total_call_duration |-> 0]
             /\ log'.steps = <<>>
       /\ InRun =>
             /\ Len(results'.waiting_times) >= Len(results.waiting_times)
             /\ SubSeq(results'.waiting_times, 1, Len(results.waiting_times))
                   = results.waiting_times
             /\ results'.total_call_duration >= results.total_call_duration
      ]_vars

\* A run entered on results left behind by an earlier run has recorded two
\* waiting times and a completed call of its own.
C18_Witness ==
    /\ InRun
    /\ frame.waits_before > 0
    /\ Len(results.waiting_times) >= 2
    /\ results.total_call_duration > 0

----------------------------------------------------------------------------
(* Configurations.  The arguments of Experiment() are chosen freely, valid   *)
(* or not; one run of basic_model follows.                                   *)

N_STREAMS_UTILITY == 4      \* N_STREAMS of model_utility

\* call_low, call_mode, call_high: in order, out of order, degenerate
CallParameters == {<<0, 1, MaxCall>>, <<MaxCall, 1, 0>>, <<1, 0, MaxCall>>, <<1, 1, 1>>}

\* model_utility.Experiment.__init__: the parameters of basic_model and
\* n_nurses, chance_callback (nurse_call_low, nurse_call_high are not read by
\* any claim); the values are stored as given, then init_sampling runs.
Construct_utility(rns, n_streams, n_operators, call, n_nurses, chance_callback) ==
    LET x == init_sampling([module |-> "model_utility",
                            random_number_set |-> rns,
                            n_streams |-> n_streams,
                            n_operators |-> n_operators,
                            call_low |-> call[1],
                            call_mode |-> call[2],
                            call_high |-> call[3],
                            n_nurses |-> n_nurses,
                            chance_callback |-> chance_callback,
                            seeds |-> <<>>,
                            dists |-> <<>>,
                            raised |-> "none"])
    IN  /\ ctl = "new"
        /\ experiment' = x
        /\ results' = init_results_variables(results)
        /\ ctl' = IF x.raised = "none" THEN "idle" ELSE x.raised
        /\ UNCHANGED <<operators, env, procs, caller_count, frame, mr,
                       history, drawn, log>>

NextConfig ==
    \/ \E n_operators \in 0..MaxOperators, call \in CallParameters :
          Construct("basic_model", DEFAULT_RND_SET, N_STREAMS, n_operators, call)
    \/ \E n_operators \in 0..1, n_nurses \in 0..1, chance_callback \in -1..2 :
          Construct_utility(DEFAULT_RND_SET, N_STREAMS_UTILITY, n_operators,
                            <<0, 1, MaxCall>>, n_nurses, chance_callback)
    \/ single_run(0, RepPeriod, 1)
    \/ step
    \/ single_run_return

SpecConfig == Init /\ [][NextConfig]_vars

----------------------------------------------------------------------------
(* Claims about configurations (SpecConfig) *)

\* The configuration held by an Experiment is valid: capacities positive,
\* call_low <= call_mode <= call_high, chance_callback a probability.
ValidConfiguration(x) ==
    /\ x.n_operators > 0
    /\ x.call_low <= x.call_mode /\ x.call_mode <= x.call_high
    /\ x.module = "model_utility" =>
          /\ x.n_nurses > 0
          /\ 0 <= x.chance_callback /\ x.chance_callback <= 1

\* C11 (as claimed): an invalid configuration is rejected with an error by
\* the constructor or by init_sampling, before any run is started: once
\* Experiment() was called with invalid values the call has raised and no
\* single_run was entered.
C11_InvalidRejected ==
    (ctl # "new" /\ ~ValidConfiguration(experiment)) =>
       /\ ctl \in {"IndexError", "ValueError"}
       /\ frame = NoFrame
       /\ history = <<>>

====
